---- MODULE Spec2Model ----
(***************************************************************************)
(* State-machine model of the threader dispatch core:                      *)
(*   WorkerPool    (src/src/worker_pool.rs)                                *)
(*   TaskExecutor  (src/src/task_executor.rs)                              *)
(*   OptimizedMultiCoreExecutor (src/src/lib.rs), which shares nothing     *)
(*   with the two above                                                    *)
(*                                                                         *)
(* A submission is one WorkerTask sent on the pool's unbounded mpsc        *)
(* channel.  The dispatcher task receives it and spawns process_task,      *)
(* which registers the id, runs the Evaluator on a blocking thread,        *)
(* unregisters the id and sends the TaskResult on the oneshot channel.     *)
(* The executor's combinators poll their futures in vector order, one      *)
(* future per step, as futures::future::{try_join_all, select_all} do.     *)
(* Wall-clock durations (duration_ms) are not modelled; a deadline is the  *)
(* event Elapse.                                                           *)
(***************************************************************************)
EXTENDS Integers, Sequences, FiniteSets, TLC

\* ------------------------------------------------------------------ bounds
MaxSubs == 2
MaxBatch == 2
MaxId == 2
MaxWorkers == 2
MaxTimeout == 1
MaxOptTasks == 2
MaxOptWorkers == 2

\* ------------------------------------------------------- program constants
DefaultTimeoutMs == 30000

\* Option::None of Task.timeout
None == -1

Ids == 1..MaxId
TaskTimeouts == {None, 0}
Tasks == [id : Ids, timeout : TaskTimeouts]
EvalOutcomes == {"Ok", "Err", "Panic"}

VARIABLES
  num_workers,        \* WorkerPool.num_workers
  subs,               \* every WorkerTask sent so far, with its oneshot channel
  queue,              \* the unbounded mpsc channel: indices into subs, FIFO
  active_tasks,       \* WorkerPool.active_tasks (keys of the HashMap)
  closed,             \* the mpsc receiver is dropped (dispatcher task gone)
  shutdownReturned,   \* WorkerPool::shutdown has returned
  default_timeout_ms, \* TaskExecutor.default_timeout_ms
  exOp,               \* the combinator called: none / all / stream / race
  exPc,               \* idle / polling / parked / returned
  exFut,              \* the futures of the batch, in input order
  exVec,              \* positions of exFut in the combinator's vector
  exCursor,           \* position in exVec polled next
  exResults,          \* execute_stream's results vector
  exRet,              \* the combinator's return value
  exLog,              \* history: the batch's results sent by the pool and
                      \* taken by the combinator, in the order it happened
  atShutdown          \* history: the tasks in the pool when shutdown was called

\* OptimizedMultiCoreExecutor (src/src/lib.rs)
VARIABLES
  cores,              \* OptimizedMultiCoreExecutor.worker_count
  task_sender,        \* the Option holding the task channel's Sender
  result_receiver,    \* the Option holding the result channel's Receiver
  workers_active,     \* the flag the worker threads loop on
  task_channel,       \* crossbeam channel of OptimizedWorkerTask, FIFO
  result_channel,     \* crossbeam channel of OptimizedWorkerResult, FIFO
  workerPc,           \* each worker thread's place in optimized_worker_thread
  getCall,            \* the get_optimized_* call in progress, if any
  shutdownPc,         \* how far the shutdown() call has got
  apiRet,             \* what the last call that returned has returned
  takenBy,            \* history: every task sent, with its id and the
                      \* worker threads that received it
  produced            \* history: every OptimizedWorkerResult a worker built

optVars == <<cores, task_sender, result_receiver, workers_active, task_channel,
             result_channel, workerPc, getCall, shutdownPc, apiRet,
             takenBy, produced>>

vars == <<num_workers, subs, queue, active_tasks, closed, shutdownReturned,
          default_timeout_ms, exOp, exPc, exFut, exVec, exCursor, exResults,
          exRet, exLog, atShutdown, cores, task_sender, result_receiver,
          workers_active, task_channel, result_channel, workerPc, getCall,
          shutdownPc, apiRet, takenBy, produced>>

poolVars == <<num_workers, subs, queue, active_tasks, closed, shutdownReturned,
             atShutdown>>
execVars == <<default_timeout_ms, exOp, exPc, exFut, exVec, exCursor,
              exResults, exRet, exLog>>

\* ----------------------------------------------------------------- values
NoVal == [id |-> 0, ok |-> FALSE]
NoRet == [kind |-> "None"]

\* Option::unwrap_or
UnwrapOr(opt, d) == IF opt = None THEN d ELSE opt

\* worker_pool.rs 116-119: the Evaluator's Ok or Err is passed on, a JoinError
\* of spawn_blocking (the call panicked) becomes an Err; messages are not kept
ExecutionResult(r) ==
  CASE r = "Ok" -> TRUE
    [] r = "Err" -> FALSE
    [] r = "Panic" -> FALSE

\* worker_pool.rs 129-133: the TaskResult of a task
PoolTaskResult(task_id, r) == [id |-> task_id, ok |-> ExecutionResult(r)]

\* task_executor.rs 160-178: pool result converted, always wrapped in Ok
ConvertResult(pool_result) ==
  [kind |-> "Ok", id |-> pool_result.id,
   error |-> IF pool_result.ok THEN "None" ELSE "Some"]

ErrRet(e) == [kind |-> "Err", err |-> e]

\* a WorkerTask on its way through the pool
NewSub(task_id, timeout_ms, hasChan, caller) ==
  [id |-> task_id, timeout_ms |-> timeout_ms, st |-> "queued",
   chan |-> IF hasChan THEN "open" ELSE "none", val |-> NoVal,
   caller |-> caller,
   call |-> IF hasChan /\ caller = "direct" THEN "waiting" ELSE "na",
   obs |-> <<>>,
   late |-> shutdownReturned]

SubIdx == 1..Len(subs)

\* futures created by a combinator and not yet polled will still submit
Unsubmitted ==
  Cardinality({p \in 1..Len(exFut) : exFut[p].st = "created"})

\* no get_optimized_* call is in progress
NoCall == [op |-> "none", pc |-> "idle", timed |-> FALSE, left |-> 0, got |-> <<>>]

\* no OptimizedMultiCoreExecutor has been built
OptUnbuilt ==
  /\ cores = 0
  /\ task_sender = "None"
  /\ result_receiver = "None"
  /\ workers_active = FALSE
  /\ task_channel = <<>>
  /\ result_channel = <<>>
  /\ workerPc = <<>>
  /\ getCall = NoCall
  /\ shutdownPc = "idle"
  /\ apiRet = NoRet
  /\ takenBy = <<>>
  /\ produced = <<>>

Init ==
  /\ OptUnbuilt
  /\ num_workers \in 0..MaxWorkers   \* new stores the argument as given
  /\ subs = <<>>
  /\ queue = <<>>
  /\ active_tasks = {}
  /\ closed = FALSE
  /\ shutdownReturned = FALSE
  /\ default_timeout_ms = DefaultTimeoutMs
  /\ exOp = "none"
  /\ exPc = "idle"
  /\ exFut = <<>>
  /\ exVec = <<>>
  /\ exCursor = 0
  /\ exResults = <<>>
  /\ exRet = NoRet
  /\ exLog = <<>>
  /\ atShutdown = {}

\* ------------------------------------------------------------- WorkerPool

\* a queue of capacity one that refuses what does not fit
SubmitTaskBounded(task_id) ==
  /\ Len(subs) + Unsubmitted < MaxSubs
  /\ IF closed \/ Len(queue) >= 1
       THEN /\ subs' = Append(subs,
                 [NewSub(task_id, None, TRUE, "direct") EXCEPT
                    !.st = "rejected", !.chan = "rxDropped",
                    !.call = "returned",
                    !.obs = <<ErrRet("ShuttingDown")>>])
            /\ queue' = queue
       ELSE /\ subs' = Append(subs, NewSub(task_id, None, TRUE, "direct"))
            /\ queue' = Append(queue, Len(subs) + 1)
  /\ UNCHANGED <<num_workers, active_tasks, closed, shutdownReturned, atShutdown>>
  /\ UNCHANGED execVars
  /\ UNCHANGED optVars

\* submit_task up to its await: create the oneshot, send on the queue
SubmitTask(task_id) ==
  /\ Len(subs) + Unsubmitted < MaxSubs
  /\ IF closed
       THEN /\ subs' = Append(subs,
                 [NewSub(task_id, None, TRUE, "direct") EXCEPT
                    !.st = "rejected", !.chan = "rxDropped",
                    !.call = "returned",
                    !.obs = <<ErrRet("ShuttingDown")>>])
            /\ queue' = queue
       ELSE /\ subs' = Append(subs, NewSub(task_id, None, TRUE, "direct"))
            /\ queue' = Append(queue, Len(subs) + 1)
  /\ UNCHANGED <<num_workers, active_tasks, closed, shutdownReturned, atShutdown>>
  /\ UNCHANGED execVars
  /\ UNCHANGED optVars

\* submit_task resumed at response_receiver.await
ReceiveResponse(s) ==
  /\ subs[s].call = "waiting"
  /\ subs[s].chan \in {"sent", "txDropped"}
  /\ subs' = [subs EXCEPT
       ![s].call = "returned",
       ![s].chan = "taken",
       ![s].obs = Append(@, IF subs[s].chan = "sent"
                              THEN [kind |-> "Result", val |-> subs[s].val]
                              ELSE ErrRet("ShuttingDown"))]
  /\ UNCHANGED <<num_workers, queue, active_tasks, closed, shutdownReturned,
                 atShutdown>>
  /\ UNCHANGED execVars
  /\ UNCHANGED optVars

\* a fire-and-forget submission that carries a response sender
SubmitTaskFireWithSender(task_id) ==
  /\ Len(subs) + Unsubmitted < MaxSubs
  /\ IF closed
       THEN /\ subs' = Append(subs,
                 [NewSub(task_id, None, TRUE, "fire") EXCEPT
                    !.st = "rejected",
                    !.obs = <<ErrRet("ShuttingDown")>>])
            /\ queue' = queue
       ELSE /\ subs' = Append(subs, NewSub(task_id, None, TRUE, "fire"))
            /\ queue' = Append(queue, Len(subs) + 1)
  /\ UNCHANGED <<num_workers, active_tasks, closed, shutdownReturned, atShutdown>>
  /\ UNCHANGED execVars
  /\ UNCHANGED optVars

\* submit_task_fire of a WorkerTask whose response_sender is None, the way
\* execute_fire builds it: the task goes on the queue as it is
SubmitTaskFire(task_id) ==
  /\ Len(subs) + Unsubmitted < MaxSubs
  /\ IF closed
       THEN /\ subs' = Append(subs,
                 [NewSub(task_id, None, FALSE, "fire") EXCEPT
                    !.st = "rejected",
                    !.obs = <<ErrRet("ShuttingDown")>>])
            /\ queue' = queue
       ELSE /\ subs' = Append(subs, NewSub(task_id, None, FALSE, "fire"))
            /\ queue' = Append(queue, Len(subs) + 1)
  /\ UNCHANGED <<num_workers, active_tasks, closed, shutdownReturned, atShutdown>>
  /\ UNCHANGED execVars
  /\ UNCHANGED optVars

\* worker_count
worker_count == num_workers

\* the submissions queued or dispatched and not yet completed
InPool ==
  {s \in SubIdx : subs[s].st \in {"queued", "spawned", "running", "evaluated"}}

\* a shutdown that closes the queue and throws away what is still queued
ShutdownDiscarding ==
  /\ ~shutdownReturned
  /\ shutdownReturned' = TRUE
  /\ atShutdown' = InPool
  /\ queue' = <<>>
  /\ subs' = [s \in SubIdx |->
               IF subs[s].st = "queued"
                 THEN [subs[s] EXCEPT
                         !.st = "aborted",
                         !.chan = IF @ = "open" THEN "txDropped" ELSE @]
                 ELSE subs[s]]
  /\ UNCHANGED <<num_workers, active_tasks, closed>>
  /\ UNCHANGED execVars
  /\ UNCHANGED optVars

\* shutdown: returns Ok(()) and touches nothing
Shutdown ==
  /\ ~shutdownReturned
  /\ shutdownReturned' = TRUE
  /\ atShutdown' = InPool
  /\ UNCHANGED <<num_workers, subs, queue, active_tasks, closed>>
  /\ UNCHANGED execVars
  /\ UNCHANGED optVars

\* a dispatcher that runs process_task itself and receives the next task
\* only when that one is over
DispatchSerial ==
  /\ ~closed
  /\ queue # <<>>
  /\ \A s \in SubIdx : subs[s].st \notin {"spawned", "running", "evaluated"}
  /\ subs' = [subs EXCEPT ![Head(queue)].st = "spawned"]
  /\ queue' = Tail(queue)
  /\ UNCHANGED <<num_workers, active_tasks, closed, shutdownReturned, atShutdown>>
  /\ UNCHANGED execVars
  /\ UNCHANGED optVars

\* dispatcher loop: recv one task and spawn process_task for it
Dispatch ==
  /\ ~closed
  /\ queue # <<>>
  /\ subs' = [subs EXCEPT ![Head(queue)].st = "spawned"]
  /\ queue' = Tail(queue)
  /\ UNCHANGED <<num_workers, active_tasks, closed, shutdownReturned, atShutdown>>
  /\ UNCHANGED execVars
  /\ UNCHANGED optVars

\* process_task 99-114: register the id, start the Evaluator on a blocking thread
Register(s) ==
  /\ subs[s].st = "spawned"
  /\ active_tasks' = active_tasks \cup {subs[s].id}
  /\ subs' = [subs EXCEPT ![s].st = "running"]
  /\ UNCHANGED <<num_workers, queue, closed, shutdownReturned, atShutdown>>
  /\ UNCHANGED execVars
  /\ UNCHANGED optVars

\* a failed Evaluator call is run again
EvalReturnRetrying(s, r) ==
  /\ subs[s].st = "running"
  /\ subs' = IF r = "Err"
               THEN [subs EXCEPT ![s].st = "spawned"]
               ELSE [subs EXCEPT ![s].st = "evaluated",
                                 ![s].val = PoolTaskResult(subs[s].id, r)]
  /\ UNCHANGED <<num_workers, queue, active_tasks, closed, shutdownReturned,
                 atShutdown>>
  /\ UNCHANGED execVars
  /\ UNCHANGED optVars

\* the Evaluator call returns (or panics); process_task 116-121
EvalReturn(s, r) ==
  /\ subs[s].st = "running"
  /\ subs' = [subs EXCEPT ![s].st = "evaluated",
                          ![s].val = PoolTaskResult(subs[s].id, r)]
  /\ UNCHANGED <<num_workers, queue, active_tasks, closed, shutdownReturned,
                 atShutdown>>
  /\ UNCHANGED execVars
  /\ UNCHANGED optVars

\* a process_task that hands its result to whichever submitter is waiting
FinishMisrouted(s) ==
  /\ subs[s].st = "evaluated"
  /\ active_tasks' = active_tasks \ {subs[s].id}
  /\ \E t \in SubIdx :
       /\ subs[t].chan = "open"
       /\ subs' = [subs EXCEPT ![s].st = "done",
                               ![t].chan = "sent",
                               ![t].val = subs[s].val]
  /\ UNCHANGED <<num_workers, queue, closed, shutdownReturned, atShutdown>>
  /\ UNCHANGED execVars
  /\ UNCHANGED optVars

\* the registry entry is kept while another task with the id is executing
FinishRefCounted(s) ==
  /\ subs[s].st = "evaluated"
  /\ active_tasks' =
       IF \E t \in SubIdx \ {s} : /\ subs[t].id = subs[s].id
                                   /\ subs[t].st \in {"running", "evaluated"}
         THEN active_tasks
         ELSE active_tasks \ {subs[s].id}
  /\ subs' = [subs EXCEPT
       ![s].st = "done",
       ![s].chan = IF subs[s].chan = "open" THEN "sent" ELSE @]
  /\ exLog' = IF subs[s].chan = "open" /\ subs[s].caller = "exec"
                THEN Append(exLog, [ev |-> "sent", s |-> s]) ELSE exLog
  /\ UNCHANGED <<num_workers, queue, closed, shutdownReturned, atShutdown>>
  /\ UNCHANGED <<default_timeout_ms, exOp, exPc, exFut, exVec, exCursor,
                 exResults, exRet>>
  /\ UNCHANGED optVars

\* a failed Evaluator call makes process_task skip the unregistration
FinishKeepsOnError(s) ==
  /\ subs[s].st = "evaluated"
  /\ active_tasks' = IF subs[s].val.ok THEN active_tasks \ {subs[s].id}
                      ELSE active_tasks
  /\ subs' = [subs EXCEPT
       ![s].st = "done",
       ![s].chan = IF subs[s].chan = "open" THEN "sent" ELSE @]
  /\ exLog' = IF subs[s].chan = "open" /\ subs[s].caller = "exec"
                THEN Append(exLog, [ev |-> "sent", s |-> s]) ELSE exLog
  /\ UNCHANGED <<num_workers, queue, closed, shutdownReturned, atShutdown>>
  /\ UNCHANGED <<default_timeout_ms, exOp, exPc, exFut, exVec, exCursor,
                 exResults, exRet>>
  /\ UNCHANGED optVars

\* a failed Evaluator call makes process_task drop the sender unused
FinishDropsOnError(s) ==
  /\ subs[s].st = "evaluated"
  /\ active_tasks' = active_tasks \ {subs[s].id}
  /\ subs' = [subs EXCEPT
       ![s].st = "done",
       ![s].chan = IF subs[s].chan = "open"
                     THEN (IF subs[s].val.ok THEN "sent" ELSE "txDropped")
                     ELSE @]
  /\ exLog' = IF subs[s].chan = "open" /\ subs[s].caller = "exec"
                THEN Append(exLog, [ev |-> "sent", s |-> s]) ELSE exLog
  /\ UNCHANGED <<num_workers, queue, closed, shutdownReturned, atShutdown>>
  /\ UNCHANGED <<default_timeout_ms, exOp, exPc, exFut, exVec, exCursor,
                 exResults, exRet>>
  /\ UNCHANGED optVars

\* process_task 123-138: unregister, then send the result if there is a sender
Finish(s) ==
  /\ subs[s].st = "evaluated"
  /\ active_tasks' = active_tasks \ {subs[s].id}
  /\ subs' = [subs EXCEPT
       ![s].st = "done",
       ![s].chan = IF subs[s].chan = "open" THEN "sent" ELSE @]
  /\ exLog' = IF subs[s].chan = "open" /\ subs[s].caller = "exec"
                THEN Append(exLog, [ev |-> "sent", s |-> s]) ELSE exLog
  /\ UNCHANGED <<num_workers, queue, closed, shutdownReturned, atShutdown>>
  /\ UNCHANGED <<default_timeout_ms, exOp, exPc, exFut, exVec, exCursor,
                 exResults, exRet>>
  /\ UNCHANGED optVars

\* the senders of the dropped tasks are leaked instead of dropped
AbortedLeaking(sub) ==
  IF sub.st \in {"queued", "spawned", "running", "evaluated"}
    THEN [sub EXCEPT !.st = "aborted"]
    ELSE sub

\* the tokio runtime is shut down: the dispatcher task and every process_task
\* task are dropped at their await points, with the receiver, the queued
\* WorkerTasks and their response senders
Aborted(sub) ==
  IF sub.st \in {"queued", "spawned", "running", "evaluated"}
    THEN [sub EXCEPT !.st = "aborted",
                     !.chan = IF sub.chan = "open" THEN "txDropped" ELSE @]
    ELSE sub

RuntimeShutdown ==
  /\ ~closed
  /\ closed' = TRUE
  /\ queue' = <<>>
  /\ subs' = [s \in SubIdx |-> Aborted(subs[s])]
  /\ UNCHANGED <<num_workers, active_tasks, shutdownReturned, atShutdown>>
  /\ UNCHANGED execVars
  /\ UNCHANGED optVars

\* ----------------------------------------------------------- TaskExecutor

Pending == [kind |-> "Pending"]

NewFuture(task) ==
  [task |-> task, sub |-> 0, st |-> "created", elapsed |-> FALSE, out |-> NoRet]

\* the task's own timeout is ignored
TaskTimeoutDefaultOnly(task) == default_timeout_ms

\* execute_single_task 141
task_timeout(task) == UnwrapOr(task.timeout, default_timeout_ms)

\* a timeout that also cancels the task inside the pool
OnTimeoutCancelling(f) ==
  [fut |-> [f EXCEPT !.st = "done", !.out = ErrRet("Timeout")],
   subs |-> [subs EXCEPT ![f.sub].chan = "rxDropped",
                         ![f.sub].st = IF @ \in {"spawned", "running", "evaluated"}
                                         THEN "aborted" ELSE @],
   queue |-> queue,
   out |-> ErrRet("Timeout")]

\* execute_single_task 151-155: the deadline won; the submit_task future is
\* dropped, and with it the oneshot receiver, nothing else
OnTimeout(f) ==
  [fut |-> [f EXCEPT !.st = "done", !.out = ErrRet("Timeout")],
   subs |-> [subs EXCEPT ![f.sub].chan = "rxDropped"],
   queue |-> queue,
   out |-> ErrRet("Timeout")]

\* One poll of an execute_single_task future.  The first poll runs the body up
\* to response_receiver.await (the task is sent on the queue); later polls look
\* at the oneshot first and at the deadline second, as tokio::time::timeout does.
\* A future that has produced its output is not polled again.
PollSingle(f) ==
  IF f.st = "created" THEN
    IF closed
      THEN [fut |-> [f EXCEPT !.st = "done", !.sub = Len(subs) + 1,
                              !.out = ErrRet("ShuttingDown")],
            subs |-> Append(subs,
                       [NewSub(f.task.id, task_timeout(f.task), TRUE, "exec")
                          EXCEPT !.st = "rejected", !.chan = "rxDropped",
                                 !.obs = <<ErrRet("ShuttingDown")>>]),
            queue |-> queue,
            out |-> ErrRet("ShuttingDown")]
      ELSE [fut |-> [f EXCEPT !.st = "waiting", !.sub = Len(subs) + 1],
            subs |-> Append(subs,
                       NewSub(f.task.id, task_timeout(f.task), TRUE, "exec")),
            queue |-> Append(queue, Len(subs) + 1),
            out |-> Pending]
  ELSE IF f.st = "waiting" THEN
    IF subs[f.sub].chan = "sent"
      THEN [fut |-> [f EXCEPT !.st = "done",
                              !.out = ConvertResult(subs[f.sub].val)],
            subs |-> [subs EXCEPT
                        ![f.sub].chan = "taken",
                        ![f.sub].obs = Append(@, [kind |-> "Result",
                                                  val |-> subs[f.sub].val])],
            queue |-> queue,
            out |-> ConvertResult(subs[f.sub].val)]
    ELSE IF subs[f.sub].chan = "txDropped"
      THEN [fut |-> [f EXCEPT !.st = "done", !.out = ErrRet("ShuttingDown")],
            subs |-> [subs EXCEPT
                        ![f.sub].chan = "taken",
                        ![f.sub].obs = Append(@, ErrRet("ShuttingDown"))],
            queue |-> queue,
            out |-> ErrRet("ShuttingDown")]
    ELSE IF task_timeout(f.task) > 0 /\ f.elapsed
      THEN OnTimeout(f)
    ELSE [fut |-> f, subs |-> subs, queue |-> queue, out |-> Pending]
  ELSE [fut |-> f, subs |-> subs, queue |-> queue, out |-> Pending]

\* a combinator returns: the futures it still holds are dropped, and with
\* them the oneshot receivers
DropFuts(futs) ==
  [p \in DOMAIN futs |->
     IF futs[p].st \in {"created", "waiting"}
       THEN [futs[p] EXCEPT !.st = "dropped"] ELSE futs[p]]

\* dropping a future also cancels its task inside the pool
DropSubsCancelling(futs, ss) ==
  [s \in DOMAIN ss |->
     IF \E p \in DOMAIN futs : futs[p].st = "waiting" /\ futs[p].sub = s
       THEN [ss[s] EXCEPT
               !.chan = IF @ \in {"open", "sent"} THEN "rxDropped" ELSE @,
               !.st = IF @ \in {"spawned", "running", "evaluated"}
                        THEN "aborted" ELSE @]
       ELSE ss[s]]

DropSubs(futs, ss) ==
  [s \in DOMAIN ss |->
     IF /\ \E p \in DOMAIN futs : futs[p].st = "waiting" /\ futs[p].sub = s
        /\ ss[s].chan \in {"open", "sent"}
       THEN [ss[s] EXCEPT !.chan = "rxDropped"] ELSE ss[s]]

\* Vec::swap_remove, as select_all removes the future that completed
SwapRemove(v, i) ==
  IF i = Len(v) THEN SubSeq(v, 1, Len(v) - 1)
  ELSE [SubSeq(v, 1, Len(v) - 1) EXCEPT ![i] = v[Len(v)]]

Identity(n) == [i \in 1..n |-> i]

\* combinators without the is_empty check: an empty batch joins to Ok([])
StartBatchUnchecked(op, tasks) ==
  /\ exPc = "idle"
  /\ Len(subs) + Len(tasks) <= MaxSubs
  /\ exOp' = op
  /\ IF tasks = <<>>
       THEN /\ exRet' = [kind |-> "Ok", results |-> <<>>]
            /\ exPc' = "returned"
            /\ exFut' = <<>>
            /\ exVec' = <<>>
            /\ exCursor' = 0
       ELSE /\ exRet' = NoRet
            /\ exPc' = "polling"
            /\ exFut' = [p \in 1..Len(tasks) |-> NewFuture(tasks[p])]
            /\ exVec' = Identity(Len(tasks))
            /\ exCursor' = 1
  /\ UNCHANGED <<default_timeout_ms, exResults, exLog>>
  /\ UNCHANGED poolVars
  /\ UNCHANGED optVars

\* the three awaiting combinators up to their first await
StartBatch(op, tasks) ==
  /\ exPc = "idle"
  /\ Len(subs) + Len(tasks) <= MaxSubs
  /\ exOp' = op
  /\ IF tasks = <<>>
       THEN /\ exRet' = ErrRet("NoTasks")
            /\ exPc' = "returned"
            /\ exFut' = <<>>
            /\ exVec' = <<>>
            /\ exCursor' = 0
       ELSE /\ exRet' = NoRet
            /\ exPc' = "polling"
            /\ exFut' = [p \in 1..Len(tasks) |-> NewFuture(tasks[p])]
            /\ exVec' = Identity(Len(tasks))
            /\ exCursor' = 1
  /\ UNCHANGED <<default_timeout_ms, exResults, exLog>>
  /\ UNCHANGED poolVars
  /\ UNCHANGED optVars

BatchInputs == UNION {[1..n -> Tasks] : n \in 0..MaxBatch}

ExecuteAll(tasks) == StartBatch("all", tasks)
ExecuteStream(tasks) == StartBatch("stream", tasks)
ExecuteRace(tasks) == StartBatch("race", tasks)

\* execute_fire 104-110: the WorkerTask built for a task, on the queue or
\* refused by a closed queue
FireTask(task) ==
  IF closed
    THEN [NewSub(task.id, UnwrapOr(task.timeout, default_timeout_ms), FALSE, "fire")
            EXCEPT !.st = "rejected", !.obs = <<ErrRet("ShuttingDown")>>]
    ELSE NewSub(task.id, UnwrapOr(task.timeout, default_timeout_ms), FALSE, "fire")

\* the tasks are submitted last to first
ExecuteFireReversed(tasks) ==
  /\ exPc = "idle"
  /\ Len(subs) + Len(tasks) <= MaxSubs
  /\ exOp' = "fire"
  /\ exPc' = "returned"
  /\ exRet' = [kind |-> "Unit"]
  /\ exFut' = [p \in 1..Len(tasks) |->
                 [NewFuture(tasks[p]) EXCEPT
                    !.sub = Len(subs) + Len(tasks) + 1 - p, !.st = "fired"]]
  /\ subs' = subs \o [p \in 1..Len(tasks) |-> FireTask(tasks[Len(tasks) + 1 - p])]
  /\ queue' = IF closed THEN queue
               ELSE queue \o [p \in 1..Len(tasks) |-> Len(subs) + p]
  /\ UNCHANGED <<default_timeout_ms, exVec, exCursor, exResults, exLog>>
  /\ UNCHANGED <<num_workers, active_tasks, closed, shutdownReturned, atShutdown>>
  /\ UNCHANGED optVars

\* execute_fire: a synchronous loop of submit_task_fire calls whose results
\* are discarded; it has no await point and returns ()
ExecuteFire(tasks) ==
  /\ exPc = "idle"
  /\ Len(subs) + Len(tasks) <= MaxSubs
  /\ exOp' = "fire"
  /\ exPc' = "returned"
  /\ exRet' = [kind |-> "Unit"]
  /\ exFut' = [p \in 1..Len(tasks) |->
                 [NewFuture(tasks[p]) EXCEPT !.sub = Len(subs) + p, !.st = "fired"]]
  /\ subs' = subs \o [p \in 1..Len(tasks) |-> FireTask(tasks[p])]
  /\ queue' = IF closed THEN queue
               ELSE queue \o [p \in 1..Len(tasks) |-> Len(subs) + p]
  /\ UNCHANGED <<default_timeout_ms, exVec, exCursor, exResults, exLog>>
  /\ UNCHANGED <<num_workers, active_tasks, closed, shutdownReturned, atShutdown>>
  /\ UNCHANGED optVars

\* the value a combinator returns with, and what returning drops
Return(ret, futs, ss, qq) ==
  /\ exRet' = ret
  /\ exPc' = "returned"
  /\ exFut' = DropFuts(futs)
  /\ subs' = DropSubs(futs, ss)
  /\ queue' = qq
  /\ exCursor' = 0

\* the pass goes on to the next future, or ends with every future pending
Advance(futs, ss, qq) ==
  /\ exFut' = futs
  /\ subs' = ss
  /\ queue' = qq
  /\ exRet' = exRet
  /\ IF exCursor < Len(exVec)
       THEN exPc' = "polling" /\ exCursor' = exCursor + 1
       ELSE exPc' = "parked" /\ exCursor' = 0

\* try_join_all: every Ok output is kept at its input position; the first Err
\* met in a pass is returned at once; all outputs present ends the call
\* a join that hands the outputs back in the order they were taken
TakenSubs == SelectSeq(exLog, LAMBDA e : e.ev = "taken")

AllResultsByCompletion(futs) ==
  [i \in 1..Len(futs) |->
     IF i <= Len(TakenSubs)
       THEN futs[CHOOSE p \in 1..Len(futs) : futs[p].sub = TakenSubs[i].s].out
       ELSE futs[CHOOSE p \in 1..Len(futs) :
                   \A j \in 1..Len(TakenSubs) : TakenSubs[j].s # futs[p].sub].out]

AllResults(futs) == [p \in 1..Len(futs) |-> futs[p].out]

PollAll(r, futs) ==
  /\ UNCHANGED <<exVec, exResults>>
  /\ IF r.out.kind = "Err"
       THEN Return(r.out, futs, r.subs, r.queue)
       ELSE IF exCursor = Len(exVec) /\ \A p \in 1..Len(futs) : futs[p].st = "done"
         THEN Return([kind |-> "Ok", results |-> AllResults(futs)],
                     futs, r.subs, r.queue)
         ELSE Advance(futs, r.subs, r.queue)

\* a race that returns after one poll of a future, ready or not
PollRaceNoWait(r, futs) ==
  /\ UNCHANGED <<exVec, exResults>>
  /\ Return(r.out, futs, r.subs, r.queue)

\* execute_race: select_all returns the first future found ready in a pass
PollRace(r, futs) ==
  /\ UNCHANGED <<exVec, exResults>>
  /\ IF r.out.kind # "Pending"
       THEN Return(r.out, futs, r.subs, r.queue)
       ELSE Advance(futs, r.subs, r.queue)

\* a stream that puts each new result in front of the ones collected before
PollStreamPrepend(r, futs) ==
  CASE r.out.kind = "Err" ->
         /\ UNCHANGED <<exVec, exResults>>
         /\ Return(r.out, futs, r.subs, r.queue)
    [] r.out.kind = "Ok" ->
         /\ exResults' = <<r.out>> \o exResults
         /\ exVec' = SwapRemove(exVec, exCursor)
         /\ IF SwapRemove(exVec, exCursor) = <<>>
              THEN Return([kind |-> "Ok", results |-> <<r.out>> \o exResults],
                          futs, r.subs, r.queue)
              ELSE /\ exFut' = futs
                   /\ subs' = r.subs
                   /\ queue' = r.queue
                   /\ exRet' = exRet
                   /\ exPc' = "polling"
                   /\ exCursor' = 1
    [] r.out.kind = "Pending" ->
         /\ UNCHANGED <<exVec, exResults>>
         /\ Advance(futs, r.subs, r.queue)

\* execute_stream 86-98: select_all over the remaining futures, again and again
PollStream(r, futs) ==
  CASE r.out.kind = "Err" ->
         /\ UNCHANGED <<exVec, exResults>>
         /\ Return(r.out, futs, r.subs, r.queue)
    [] r.out.kind = "Ok" ->
         /\ exResults' = Append(exResults, r.out)
         /\ exVec' = SwapRemove(exVec, exCursor)
         /\ IF SwapRemove(exVec, exCursor) = <<>>
              THEN Return([kind |-> "Ok", results |-> Append(exResults, r.out)],
                          futs, r.subs, r.queue)
              ELSE /\ exFut' = futs
                   /\ subs' = r.subs
                   /\ queue' = r.queue
                   /\ exRet' = exRet
                   /\ exPc' = "polling"
                   /\ exCursor' = 1
    [] r.out.kind = "Pending" ->
         /\ UNCHANGED <<exVec, exResults>>
         /\ Advance(futs, r.subs, r.queue)

\* the combinator polls the future at the cursor
ExPoll ==
  /\ exPc = "polling"
  /\ LET p == exVec[exCursor]
         r == PollSingle(exFut[p])
         futs == [exFut EXCEPT ![p] = r.fut]
     IN  /\ CASE exOp = "all" -> PollAll(r, futs)
               [] exOp = "race" -> PollRace(r, futs)
               [] exOp = "stream" -> PollStream(r, futs)
         /\ exLog' = IF r.out.kind = "Ok"
                       THEN Append(exLog, [ev |-> "taken", s |-> r.fut.sub])
                       ELSE exLog
  /\ UNCHANGED <<num_workers, active_tasks, closed, shutdownReturned,
                 atShutdown, default_timeout_ms, exOp>>
  /\ UNCHANGED optVars

\* a future the combinator waits on can make progress
FutReady(f) ==
  /\ f.st = "waiting"
  /\ \/ subs[f.sub].chan \in {"sent", "txDropped"}
     \/ f.elapsed

\* the waker of a ready future reschedules the parked combinator
ExWake ==
  /\ exPc = "parked"
  /\ \E i \in 1..Len(exVec) : FutReady(exFut[exVec[i]])
  /\ exPc' = "polling"
  /\ exCursor' = 1
  /\ UNCHANGED <<default_timeout_ms, exOp, exFut, exVec, exResults, exRet,
                 exLog>>
  /\ UNCHANGED poolVars
  /\ UNCHANGED optVars

\* a deadline is armed and passes whatever the timeout is
ElapseAlways(p) ==
  /\ exPc \in {"polling", "parked"}
  /\ exFut[p].st = "waiting"
  /\ ~exFut[p].elapsed
  /\ exFut' = [exFut EXCEPT ![p].elapsed = TRUE]
  /\ UNCHANGED <<default_timeout_ms, exOp, exPc, exVec, exCursor, exResults,
                 exRet, exLog>>
  /\ UNCHANGED poolVars
  /\ UNCHANGED optVars

\* the deadline of tokio::time::timeout passes (execute_single_task 151-155)
Elapse(p) ==
  /\ exPc \in {"polling", "parked"}
  /\ exFut[p].st = "waiting"
  /\ task_timeout(exFut[p].task) > 0
  /\ ~exFut[p].elapsed
  /\ exFut' = [exFut EXCEPT ![p].elapsed = TRUE]
  /\ UNCHANGED <<default_timeout_ms, exOp, exPc, exVec, exCursor, exResults,
                 exRet, exLog>>
  /\ UNCHANGED poolVars
  /\ UNCHANGED optVars

\* set_default_timeout: takes &mut self, so no combinator call is in progress
SetDefaultTimeout(timeout_ms) ==
  /\ exPc \in {"idle", "returned"}
  /\ default_timeout_ms' = timeout_ms
  /\ UNCHANGED <<exOp, exPc, exFut, exVec, exCursor, exResults, exRet, exLog>>
  /\ UNCHANGED poolVars
  /\ UNCHANGED optVars

\* get_default_timeout
get_default_timeout == default_timeout_ms

\* ------------------------------------------------------------------ system

\* the pool's own tasks: the dispatcher and the process_task tasks
PoolSteps ==
  \/ Dispatch
  \/ \E s \in SubIdx : Register(s)
  \/ \E s \in SubIdx, r \in EvalOutcomes : EvalReturn(s, r)
  \/ \E s \in SubIdx : Finish(s)
  \/ RuntimeShutdown

\* callers of the WorkerPool API
Next ==
  \/ \E id \in Ids : SubmitTask(id)
  \/ \E s \in SubIdx : ReceiveResponse(s)
  \/ \E id \in Ids : SubmitTaskFire(id)
  \/ Shutdown
  \/ PoolSteps

Spec == Init /\ [][Next]_vars

\* one call of a TaskExecutor combinator on the pool
ExecNext ==
  \/ \E tasks \in BatchInputs : ExecuteAll(tasks)
  \/ \E tasks \in BatchInputs : ExecuteStream(tasks)
  \/ \E tasks \in BatchInputs : ExecuteRace(tasks)
  \/ \E tasks \in BatchInputs : ExecuteFire(tasks)
  \/ ExPoll
  \/ ExWake
  \/ \E p \in 1..Len(exFut) : Elapse(p)
  \/ \E id \in Ids : SubmitTaskFire(id)
  \/ PoolSteps

ExecSpec == Init /\ [][ExecNext]_vars

\* the pool with a runtime that stays up, its tasks scheduled fairly and
\* every Evaluator call returning
LiveNext ==
  \/ \E id \in Ids : SubmitTask(id)
  \/ \E s \in SubIdx : ReceiveResponse(s)
  \/ \E id \in Ids : SubmitTaskFire(id)
  \/ Shutdown
  \/ Dispatch
  \/ \E s \in SubIdx : Register(s)
  \/ \E s \in SubIdx, r \in EvalOutcomes : EvalReturn(s, r)
  \/ \E s \in SubIdx : Finish(s)

LiveSpec ==
  /\ Init
  /\ [][LiveNext]_vars
  /\ WF_vars(Dispatch)
  /\ \A s \in 1..MaxSubs :
       /\ WF_vars(s \in SubIdx /\ Register(s))
       /\ WF_vars(s \in SubIdx /\ \E r \in EvalOutcomes : EvalReturn(s, r))
       /\ WF_vars(s \in SubIdx /\ Finish(s))

\* ------------------------------------------------------------------ claims

Running == {s \in SubIdx : subs[s].st = "running"}

\* C1: the number of tasks whose Evaluator call is in progress never exceeds
\* the worker count the pool was built with.
C1_ConcurrencyBound == Cardinality(Running) <= num_workers

\* C2: a submit call observes at most one outcome, and exactly one once it has
\* returned: the TaskResult of its own task (its id, produced by its own run),
\* or ShuttingDown for a task that never completed.
C2_ExactlyOneOutcome ==
  \A s \in SubIdx :
    subs[s].caller = "direct" /\ subs[s].chan # "none" =>
      /\ Len(subs[s].obs) <= 1
      /\ (subs[s].call = "returned") <=> (Len(subs[s].obs) = 1)
      /\ Len(subs[s].obs) = 1 =>
           \/ /\ subs[s].obs[1].kind = "Result"
              /\ subs[s].obs[1].val.id = subs[s].id
              /\ subs[s].obs[1].val = subs[s].val
              /\ subs[s].st = "done"
           \/ /\ subs[s].obs[1] = ErrRet("ShuttingDown")
              /\ subs[s].st \in {"rejected", "aborted"}

\* two submit calls with different ids have each received a result
C2_Witness ==
  \E s, t \in SubIdx :
    /\ subs[s].caller = "direct" /\ subs[t].caller = "direct"
    /\ subs[s].id # subs[t].id
    /\ subs[s].call = "returned" /\ subs[t].call = "returned"
    /\ subs[s].obs[1].kind = "Result" /\ subs[t].obs[1].kind = "Result"

\* C3: a submission made after shutdown() returned is rejected with
\* ShuttingDown and never enqueued or dispatched.
C3_RejectedAfterShutdown ==
  \A s \in SubIdx :
    subs[s].late => subs[s].st = "rejected" /\ subs[s].obs = <<ErrRet("ShuttingDown")>>

\* C4: every task queued or dispatched when shutdown() was called is
\* eventually dispatched and runs to completion.
C4_ShutdownDrains ==
  \A s \in 1..MaxSubs :
    (s \in atShutdown) ~> (s \in SubIdx /\ subs[s].st = "done")

\* a task that was in the pool when shutdown() was called has completed
C4_Witness ==
  \E s \in atShutdown : subs[s].st = "done"

\* ---------------------------------------------------- claims on TaskExecutor

Batch == 1..Len(exFut)
DistinctIds ==
  \A p, q \in Batch : p # q => exFut[p].task.id # exFut[q].task.id
ReturnedOk(op) == exOp = op /\ exPc = "returned" /\ exRet.kind = "Ok"

\* the submission of the batch task with this id (ids distinct)
SubOfId(id) == exFut[CHOOSE p \in Batch : exFut[p].task.id = id].sub

Event(e, s) == [ev |-> e, s |-> s]
\* event (e1, a) is in the history before event (e2, b)
Before(e1, a, e2, b) ==
  \E k, l \in 1..Len(exLog) :
    k < l /\ exLog[k] = Event(e1, a) /\ exLog[l] = Event(e2, b)

\* C5: execute_all, execute_stream and execute_race called with an empty list
\* return NoTasks and leave the pool's queue, submissions and registry as
\* they were.
C5_EmptyBatchNoTasks ==
  [][(exPc = "idle" /\ exOp' \in {"all", "stream", "race"} /\ exFut' = <<>>) =>
       /\ exPc' = "returned"
       /\ exRet' = ErrRet("NoTasks")
       /\ subs' = subs /\ queue' = queue /\ active_tasks' = active_tasks]_vars

\* a combinator returned from an empty batch while a task sat in the queue
C5_Witness ==
  /\ exPc = "returned" /\ exFut = <<>> /\ exRet = ErrRet("NoTasks")
  /\ queue # <<>>

\* C6: a successful execute_all returns one result per input task, the i-th
\* carrying the id of the i-th input, whatever the completion order.
C6_AllKeepsInputOrder ==
  ReturnedOk("all") =>
    /\ Len(exRet.results) = Len(exFut)
    /\ \A i \in Batch : exRet.results[i].id = exFut[i].task.id

\* two tasks with different ids, the second delivered and taken first, and
\* execute_all has returned both with no failure
C6_Witness ==
  /\ ReturnedOk("all") /\ Len(exFut) = 2 /\ DistinctIds
  /\ \A i \in Batch : exRet.results[i].error = "None"
  /\ Before("sent", exFut[2].sub, "sent", exFut[1].sub)
  /\ Before("taken", exFut[2].sub, "taken", exFut[1].sub)

\* C7: execute_all never returns a success sequence that holds a failed
\* task's outcome (an Evaluator failure aborts the batch with an error).
C7_AllAbortsOnEvaluatorFailure ==
  ReturnedOk("all") => \A i \in 1..Len(exRet.results) : exRet.results[i].error = "None"

AllSucceeded == \A i \in 1..Len(exRet.results) : exRet.results[i].error = "None"

C9_StreamAbortsOnEvaluatorFailure ==
  ReturnedOk("stream") => AllSucceeded

\* the future whose output execute_race returned
Winners == {p \in Batch : exFut[p].st = "done"}

ExecLiveNext ==
  \/ \E tasks \in BatchInputs : ExecuteAll(tasks)
  \/ \E tasks \in BatchInputs : ExecuteStream(tasks)
  \/ \E tasks \in BatchInputs : ExecuteRace(tasks)
  \/ ExPoll
  \/ ExWake
  \/ \E p \in 1..Len(exFut) : Elapse(p)
  \/ Dispatch
  \/ \E s \in SubIdx : Register(s)
  \/ \E s \in SubIdx, r \in EvalOutcomes : EvalReturn(s, r)
  \/ \E s \in SubIdx : Finish(s)

ExecLiveSpec ==
  /\ Init
  /\ [][ExecLiveNext]_vars
  /\ WF_vars(ExPoll)
  /\ WF_vars(ExWake)
  /\ WF_vars(Dispatch)
  /\ \A s \in 1..MaxSubs :
       /\ WF_vars(s \in SubIdx /\ Register(s))
       /\ WF_vars(s \in SubIdx /\ \E r \in EvalOutcomes : EvalReturn(s, r))
       /\ WF_vars(s \in SubIdx /\ Finish(s))

\* the submission has no other submission with its id
UniqueId(s) == \A t \in SubIdx \ {s} : subs[t].id # subs[s].id

\* the batch task was enqueued, ran to completion and was unregistered, and
\* its outcome was handed to no one
RanUnobserved(p) ==
  /\ exFut[p].sub \in SubIdx
  /\ subs[exFut[p].sub].st = "done"
  /\ subs[exFut[p].sub].obs = <<>>
  /\ subs[exFut[p].sub].chan = "rxDropped"
  /\ UniqueId(exFut[p].sub) => subs[exFut[p].sub].id \notin active_tasks

TimedOut(p) ==
  /\ p \in Batch
  /\ exFut[p].sub \in SubIdx
  /\ exFut[p].out = ErrRet("Timeout")

\* the step at which a deadline wins touches nothing inside the pool
TimeoutLeavesPool ==
  \A p \in 1..MaxBatch :
    (TimedOut(p)' /\ ~TimedOut(p)) =>
      /\ subs'[exFut'[p].sub].st = subs[exFut[p].sub].st
      /\ active_tasks' = active_tasks
      /\ queue' = queue

\* a timed out task whose Evaluator call is still running is still registered
TimedOutStaysRegistered ==
  \A p \in 1..MaxBatch :
    (TimedOut(p) /\ subs[exFut[p].sub].st = "running" /\ UniqueId(exFut[p].sub))
      => subs[exFut[p].sub].id \in active_tasks

\* C12: when a task's deadline elapses before its Evaluator call returned, the
\* caller gets Timeout while the task stays in the pool: the timeout changes
\* nothing in the queue or the registry, the task is still dispatched and
\* evaluated, it stays registered while its Evaluator call runs, and it is
\* unregistered only when process_task finishes.
C12_TimeoutLeavesTaskInPool ==
  /\ [][TimeoutLeavesPool]_vars
  /\ [](TimedOutStaysRegistered)
  /\ \A p \in 1..MaxBatch :
       TimedOut(p) ~> (TimedOut(p) /\ subs[exFut[p].sub].st = "done")

\* the call returned Timeout for a task that the pool then ran to completion
C12_Witness ==
  /\ exPc = "returned"
  /\ exRet = ErrRet("Timeout")
  /\ \E p \in Batch : TimedOut(p) /\ subs[exFut[p].sub].st = "done"

\* ------------------------------------------------- further claims on the pool

FireStep == exOp' = "fire" /\ exOp # "fire"

C15_EvaluatorErrorIsAResult ==
  \A s \in SubIdx :
    (subs[s].caller = "direct" /\ subs[s].call = "returned") =>
      /\ (subs[s].st = "done" /\ ~subs[s].val.ok) =>
           subs[s].obs = <<[kind |-> "Result",
                            val |-> [id |-> subs[s].id, ok |-> FALSE]]>>
      /\ (\E i \in 1..Len(subs[s].obs) : subs[s].obs[i].kind = "Err") =>
           /\ closed
           /\ subs[s].st \in {"rejected", "aborted"}
           /\ subs[s].chan \in {"rxDropped", "taken"}

\* a submit_task call has returned the TaskResult of a failed Evaluator call
C15_Witness ==
  \E s \in SubIdx :
    /\ subs[s].caller = "direct" /\ subs[s].call = "returned"
    /\ subs[s].st = "done" /\ ~subs[s].val.ok
    /\ subs[s].obs[1].kind = "Result"

\* the pool with its tasks and its callers scheduled fairly and every
\* Evaluator call returning, on a runtime that may be shut down at any time
FairSpec ==
  /\ Init
  /\ [][Next]_vars
  /\ WF_vars(Dispatch)
  /\ \A s \in 1..MaxSubs :
       /\ WF_vars(s \in SubIdx /\ Register(s))
       /\ WF_vars(s \in SubIdx /\ \E r \in EvalOutcomes : EvalReturn(s, r))
       /\ WF_vars(s \in SubIdx /\ Finish(s))
       /\ WF_vars(s \in SubIdx /\ ReceiveResponse(s))

\* C16: every submit_task call returns in the end, with the TaskResult of its
\* task or with ShuttingDown, also when the pool goes down under it.
C16_SubmitReturns ==
  \A s \in 1..MaxSubs :
    (s \in SubIdx /\ subs[s].call = "waiting") ~>
      (/\ s \in SubIdx
       /\ subs[s].call = "returned"
       /\ \/ subs[s].obs = <<[kind |-> "Result", val |-> subs[s].val]>>
          \/ subs[s].obs = <<ErrRet("ShuttingDown")>>)

\* a submit_task call whose task was in the pool when the runtime went down
\* has returned ShuttingDown
C16_Witness ==
  \E s \in SubIdx :
    /\ subs[s].caller = "direct" /\ subs[s].call = "returned"
    /\ subs[s].st = "aborted"
    /\ subs[s].obs = <<ErrRet("ShuttingDown")>>

\* the submission's registry entry was inserted and its Evaluator call started
Started(s) == subs[s].st \in {"running", "evaluated", "done"}

\* C17: tasks start in the order they were enqueued: when a task has been
\* registered and its Evaluator call started, so has every task enqueued
\* before it.
C17_StartsInQueueOrder ==
  \A a, b \in SubIdx :
    (a < b /\ Started(b) /\ subs[a].st # "rejected") =>
      subs[a].st \notin {"queued", "spawned"}

\* C18: a pool built with a worker count of zero reports the host's core
\* count, so at least one worker.
C18_ZeroResolvesToCores == worker_count >= 1

\* the executor with its default timeout set at will between calls, and
\* batches of tasks with and without a positive timeout of their own
TimeoutValues == 0..MaxTimeout
TimedTasks == [id : Ids, timeout : {None} \cup TimeoutValues]
TimedBatchInputs == UNION {[1..n -> TimedTasks] : n \in 0..MaxBatch}

TimeoutNext ==
  \/ \E t \in TimeoutValues : SetDefaultTimeout(t)
  \/ \E tasks \in TimedBatchInputs : ExecuteAll(tasks)
  \/ \E tasks \in TimedBatchInputs : ExecuteStream(tasks)
  \/ \E tasks \in TimedBatchInputs : ExecuteRace(tasks)
  \/ ExPoll
  \/ ExWake
  \/ \E p \in 1..Len(exFut) : Elapse(p)
  \/ PoolSteps

TimeoutSpec == Init /\ [][TimeoutNext]_vars

\* the deadline execute_single_task computed for the batch task at position p
Deadline(p) == subs[exFut[p].sub].timeout_ms

\* C19: the deadline applied to a task of execute_all, execute_stream or
\* execute_race is the task's own timeout when it has one, else the default
\* timeout the executor holds during the call; only a positive deadline can
\* pass and turn the wait into Timeout.
C19_EffectiveTimeout ==
  \A p \in Batch :
    exFut[p].sub \in SubIdx =>
      /\ exFut[p].task.timeout # None => Deadline(p) = exFut[p].task.timeout
      /\ (exFut[p].task.timeout = None /\ exPc \in {"polling", "parked"}) =>
           Deadline(p) = get_default_timeout
      /\ exFut[p].task.timeout = None =>
           Deadline(p) \in {DefaultTimeoutMs} \cup TimeoutValues
      /\ (exFut[p].elapsed \/ exFut[p].out = ErrRet("Timeout")) => Deadline(p) > 0

\* one task timed out on a default set with set_default_timeout, next to a
\* task whose own timeout of zero kept it from timing out on that default
C19_Witness ==
  /\ exPc = "returned"
  /\ exRet = ErrRet("Timeout")
  /\ \E p, q \in Batch :
       /\ exFut[p].task.timeout = None /\ TimedOut(p)
       /\ Deadline(p) = MaxTimeout
       /\ exFut[q].task.timeout = 0 /\ exFut[q].sub \in SubIdx
       /\ Deadline(q) = 0

\* no two submissions carry the same id
UniqueIds == \A s \in SubIdx : UniqueId(s)

\* the TaskResult of the submission has been sent to its submitter
Delivered(s) ==
  \/ subs[s].chan = "sent"
  \/ \E i \in 1..Len(subs[s].obs) : subs[s].obs[i].kind = "Result"

\* C20: with unique ids, a task's id is in the registry from before its
\* Evaluator call starts until after the call has returned, whatever its
\* outcome, and at no other time: not while the task is queued or spawned,
\* not once its TaskResult is delivered, and the registry is empty when every
\* task has completed.
C20_RegistryTracksEvaluation ==
  UniqueIds =>
    /\ \A s \in SubIdx :
         /\ subs[s].st \in {"running", "evaluated"} => subs[s].id \in active_tasks
         /\ subs[s].st \in {"queued", "spawned", "rejected", "done"} =>
              subs[s].id \notin active_tasks
         /\ Delivered(s) => subs[s].id \notin active_tasks
    /\ (\A s \in SubIdx : subs[s].st \in {"rejected", "done"}) => active_tasks = {}
    /\ active_tasks \subseteq {subs[s].id : s \in SubIdx}

\* two tasks with different ids have completed, one of them with a failed
\* Evaluator call, a TaskResult has reached its submitter, the registry is empty
C20_Witness ==
  /\ UniqueIds
  /\ Len(subs) = 2
  /\ \A s \in SubIdx : subs[s].st = "done"
  /\ \E s \in SubIdx : ~subs[s].val.ok
  /\ \E s \in SubIdx : Delivered(s) /\ subs[s].call = "returned"
  /\ active_tasks = {}

\* nothing is refused for its id, every submit_task that got a TaskResult got
\* the one of its own run, and a task executing without a registry entry has
\* lost it to a completed task with the same id
DuplicateIdsShareEntry ==
  \A s \in SubIdx :
    /\ subs[s].st = "rejected" => closed
    /\ (subs[s].caller = "direct" /\ Delivered(s) /\ subs[s].call = "returned") =>
         subs[s].obs = <<[kind |-> "Result",
                          val |-> [id |-> subs[s].id, ok |-> subs[s].val.ok]]>>
    /\ (subs[s].st \in {"running", "evaluated"} /\ subs[s].id \notin active_tasks) =>
         \E t \in SubIdx \ {s} : subs[t].id = subs[s].id /\ subs[t].st = "done"

\* a task that completes takes the entry of its id out of the registry,
\* whoever else is executing under that id
CompletionRemovesEntry ==
  \A s \in SubIdx :
    (subs[s].st = "evaluated" /\ subs'[s].st = "done") =>
      subs[s].id \notin active_tasks'

\* C21: tasks with equal ids are neither rejected nor merged: both run, each
\* submitter gets the TaskResult of its own run, and the registry has one
\* entry per id, which the first of them to complete removes while the other
\* is still executing.
C21_DuplicateIdsBothRun ==
  /\ [](DuplicateIdsShareEntry)
  /\ [][CompletionRemovesEntry]_vars

\* of two submit_task calls with the same id one has its TaskResult, the other
\* is still in its Evaluator call, and the registry no longer has the id
C21_Witness ==
  \E s, t \in SubIdx :
    /\ s # t /\ subs[s].id = subs[t].id
    /\ subs[s].caller = "direct" /\ subs[t].caller = "direct"
    /\ subs[s].call = "returned" /\ Delivered(s)
    /\ subs[t].st = "running"
    /\ subs[s].id \notin active_tasks

\* how far a submission has got
Rank(st) ==
  CASE st = "queued" -> 1
    [] st = "spawned" -> 2
    [] st = "running" -> 3
    [] st = "evaluated" -> 4
    [] st \in {"done", "aborted", "rejected"} -> 5

\* a step moves no submission backwards, moves none out of a final state,
\* and leaves the outcome of an Evaluator call that has returned as it is
OnlyForward ==
  \A s \in SubIdx :
    /\ Rank(subs'[s].st) >= Rank(subs[s].st)
    /\ subs[s].st \in {"done", "aborted", "rejected"} => subs'[s].st = subs[s].st
    /\ subs[s].st \in {"evaluated", "done"} => subs'[s].val = subs[s].val

\* a submission is on the queue once while it is queued and never otherwise,
\* and every task of a batch has at most one submission
SubmittedOnce ==
  /\ \A s \in SubIdx :
       Cardinality({k \in 1..Len(queue) : queue[k] = s})
         = (IF subs[s].st = "queued" THEN 1 ELSE 0)
  /\ \A p, q \in Batch :
       (p # q /\ exFut[p].sub # 0) => exFut[p].sub # exFut[q].sub
  /\ Cardinality({s \in SubIdx : subs[s].caller = "exec"})
       = Cardinality({p \in Batch : exFut[p].sub # 0 /\ exOp # "fire"})

\* C22: a submission reaches the Evaluator at most once: its state only moves
\* forward from queued over dispatched to completed, it is never put back on
\* the queue, and nothing is submitted again after a Timeout, a ShuttingDown
\* or a failed Evaluator call.
C22_NoRetry ==
  /\ [][OnlyForward]_vars
  /\ [](SubmittedOnce)

\* a call has returned Timeout, its task has completed since with a failed
\* Evaluator call, and the pool holds that one submission of it only
C22_Witness ==
  /\ exPc = "returned"
  /\ exRet = ErrRet("Timeout")
  /\ Len(exFut) = 1
  /\ Len(subs) = 1
  /\ subs[1].st = "done" /\ ~subs[1].val.ok

\* the pool on a runtime that stays up, scheduled fairly, where the Evaluator
\* call of the first task submitted may never return
BlockedSpec ==
  /\ Init
  /\ [][LiveNext]_vars
  /\ WF_vars(Dispatch)
  /\ \A s \in 1..MaxSubs :
       /\ WF_vars(s \in SubIdx /\ Register(s))
       /\ WF_vars(s \in SubIdx /\ Finish(s))
       /\ WF_vars(s \in SubIdx /\ ReceiveResponse(s))
  /\ \A s \in 2..MaxSubs :
       WF_vars(s \in SubIdx /\ \E r \in EvalOutcomes : EvalReturn(s, r))

\* the submission has completed and, if a submit_task call waits for it, that
\* call has returned its TaskResult
CompletedAndDelivered(s) ==
  /\ s \in SubIdx
  /\ subs[s].st = "done"
  /\ subs[s].caller = "direct" =>
       subs[s].obs = <<[kind |-> "Result", val |-> subs[s].val]>>

\* C23: on a pool of two or more workers a task stuck in its Evaluator call
\* does not hold up the dispatcher: every task enqueued after it is still
\* dispatched and completed, and its result delivered.
C23_BlockedCallDoesNotStall ==
  \A s \in 2..MaxSubs :
    (/\ num_workers >= 2
     /\ s \in SubIdx
     /\ subs[s].st = "queued"
     /\ subs[1].st \in {"queued", "spawned", "running"})
      ~> CompletedAndDelivered(s)

\* the first task is still in its Evaluator call and a submit_task call made
\* after it has returned its TaskResult, on a pool of two workers
C23_Witness ==
  /\ num_workers >= 2
  /\ Len(subs) = 2
  /\ subs[1].st = "running"
  /\ subs[2].caller = "direct"
  /\ CompletedAndDelivered(2)

\* a submission made on an open queue goes to the back of the queue with no
\* error, whatever is queued or running
EnqueuedWhateverTheBacklog ==
  (Len(subs') = Len(subs) + 1 /\ ~closed) =>
    /\ queue' = Append(queue, Len(subs'))
    /\ subs'[Len(subs')].st = "queued"
    /\ subs'[Len(subs')].obs = <<>>
    /\ subs'[Len(subs')].caller = "direct" => subs'[Len(subs')].chan = "open"

\* C24: while the queue is open a submission is never refused or held back
\* for backlog: submit_task_fire succeeds and submit_task enqueues at every
\* queue depth and with every worker busy.
C24_UnboundedQueue == [][EnqueuedWhateverTheBacklog]_vars

\* with as many Evaluator calls running as the pool has workers, one more
\* submission has been enqueued with no error
C24_Witness ==
  /\ num_workers >= 1
  /\ Cardinality(Running) >= num_workers
  /\ queue = <<Len(subs)>>
  /\ subs[Len(subs)].st = "queued"
  /\ subs[Len(subs)].obs = <<>>

\* C25: a task whose effective timeout is 0 is awaited with no deadline: no
\* deadline ever passes for it, it never yields Timeout, and its wait ends
\* only with the TaskResult taken from the pool or with ShuttingDown.
C25_ZeroTimeoutNoDeadline ==
  \A p \in Batch :
    (exFut[p].sub \in SubIdx /\ Deadline(p) = 0) =>
      /\ ~exFut[p].elapsed
      /\ exFut[p].out # ErrRet("Timeout")
      /\ exFut[p].st = "done" =>
           \/ /\ exFut[p].out = ConvertResult(subs[exFut[p].sub].val)
              /\ subs[exFut[p].sub].st = "done"
              /\ subs[exFut[p].sub].chan = "taken"
           \/ /\ exFut[p].out = ErrRet("ShuttingDown")
              /\ subs[exFut[p].sub].st \in {"rejected", "aborted"}

\* a task without a timeout of its own, run while the default timeout was 0,
\* has returned its result
C25_Witness ==
  /\ exPc = "returned"
  /\ exRet.kind = "Ok"
  /\ \E p \in Batch :
       /\ exFut[p].task.timeout = None
       /\ exFut[p].sub \in SubIdx
       /\ Deadline(p) = 0
       /\ exFut[p].out.kind = "Ok"

\* ------------------------------------------- OptimizedMultiCoreExecutor

\* no WorkerPool and no TaskExecutor are in use
PoolUnbuilt ==
  /\ num_workers = 0
  /\ subs = <<>>
  /\ queue = <<>>
  /\ active_tasks = {}
  /\ closed = FALSE
  /\ shutdownReturned = FALSE
  /\ default_timeout_ms = DefaultTimeoutMs
  /\ exOp = "none"
  /\ exPc = "idle"
  /\ exFut = <<>>
  /\ exVec = <<>>
  /\ exCursor = 0
  /\ exResults = <<>>
  /\ exRet = NoRet
  /\ exLog = <<>>
  /\ atShutdown = {}

\* the worker_count argument of new, and what num_cpus::get() may report
OptWorkerCounts == {None} \cup 0..MaxOptWorkers
HostCores == 1..MaxOptWorkers

\* generate_task_id: a wall-clock timestamp, which nothing keeps unique
OptIds == 1..MaxOptTasks

\* OptimizedMultiCoreExecutor::new: the state when it returns, with one thread
\* spawned per core, each at the top of its loop
OptNew(arg_worker_count, host) ==
  /\ cores = UnwrapOr(arg_worker_count, host)
  /\ task_sender = "Some"
  /\ result_receiver = "Some"
  /\ workers_active = TRUE
  /\ task_channel = <<>>
  /\ result_channel = <<>>
  /\ workerPc = [w \in 1..UnwrapOr(arg_worker_count, host) |->
                   [pc |-> "top", n |-> 0]]
  /\ getCall = NoCall
  /\ shutdownPc = "idle"
  /\ apiRet = NoRet
  /\ takenBy = <<>>
  /\ produced = <<>>

OptInit ==
  /\ PoolUnbuilt
  /\ \E arg_worker_count \in OptWorkerCounts, host \in HostCores :
       OptNew(arg_worker_count, host)

Workers == DOMAIN workerPc

\* the ids generated so far, in order
task_ids == [n \in DOMAIN takenBy |-> takenBy[n].id]

\* generate_task_id: "opt_task_" and the nanoseconds of the system clock, which
\* may be those of an earlier call. Only whether two ids are equal matters, so
\* an id not seen before is named by the next unused number
NextIds(seen) ==
  {seen[k] : k \in DOMAIN seen} \cup {Cardinality({seen[k] : k \in DOMAIN seen}) + 1}

\* new keeps handles of its own to the Receiver of tasks and the Sender of
\* results
HandlesKept == TRUE

\* the worker threads hold the only handles of the task channel's Receiver and
\* of the result channel's Sender: the ones made in new are dropped when new
\* returns, a thread drops its own when it leaves optimized_worker_thread
WorkersAlive == \E w \in Workers : workerPc[w].pc # "exited"

\* what a call returned: the ids, or the ids of the results, it answers with
OptOk(op, v) == [op |-> op, kind |-> "Ok", val |-> v]
OptErr(op, e) == [op |-> op, kind |-> "Err", err |-> e]
ShutDownMsg == "Worker pool is shut down"

\* the frame of a call that only reads and returns
OptCallFrame ==
  UNCHANGED <<cores, task_sender, result_receiver, workers_active,
              result_channel, workerPc, getCall, shutdownPc, produced>>

\* submit_optimized_batch: the hints are parsed first; then, under the lock of
\* task_sender, one task per pair is sent, each with a fresh id
SubmitOptimizedBatch(ids, hintsOk) ==
  /\ \A k \in DOMAIN ids : ids[k] \in NextIds(task_ids \o SubSeq(ids, 1, k - 1))
  /\ (hintsOk /\ task_sender = "Some" /\ WorkersAlive) =>
       Len(takenBy) + Len(ids) <= MaxOptTasks
  /\ IF ~hintsOk
       THEN /\ apiRet' = OptErr("submit_optimized_batch", "Invalid optimization hints")
            /\ UNCHANGED <<task_channel, takenBy>>
       ELSE IF task_sender = "None"
       THEN /\ apiRet' = OptErr("submit_optimized_batch", ShutDownMsg)
            /\ UNCHANGED <<task_channel, takenBy>>
       ELSE IF ~WorkersAlive /\ ids # <<>>
       THEN /\ apiRet' = OptErr("submit_optimized_batch",
                                "sending on a disconnected channel")
            /\ UNCHANGED <<task_channel, takenBy>>
       ELSE /\ apiRet' = OptOk("submit_optimized_batch", ids)
            /\ task_channel' = task_channel \o
                 [k \in 1..Len(ids) |-> [n |-> Len(takenBy) + k, id |-> ids[k]]]
            /\ takenBy' = takenBy \o [k \in 1..Len(ids) |-> [id |-> ids[k], by |-> {}]]
  /\ OptCallFrame
  /\ UNCHANGED <<poolVars, execVars>>

\* submit_optimized_task: the same for one task
SubmitOptimizedTask(id, hintsOk) ==
  /\ id \in NextIds(task_ids)
  /\ (hintsOk /\ task_sender = "Some" /\ WorkersAlive) =>
       Len(takenBy) < MaxOptTasks
  /\ IF ~hintsOk
       THEN /\ apiRet' = OptErr("submit_optimized_task", "Invalid optimization hints")
            /\ UNCHANGED <<task_channel, takenBy>>
       ELSE IF task_sender = "None"
       THEN /\ apiRet' = OptErr("submit_optimized_task", ShutDownMsg)
            /\ UNCHANGED <<task_channel, takenBy>>
       ELSE IF ~WorkersAlive
       THEN /\ apiRet' = OptErr("submit_optimized_task",
                                "sending on a disconnected channel")
            /\ UNCHANGED <<task_channel, takenBy>>
       ELSE /\ apiRet' = OptOk("submit_optimized_task", <<id>>)
            /\ task_channel' = Append(task_channel, [n |-> Len(takenBy) + 1, id |-> id])
            /\ takenBy' = Append(takenBy, [id |-> id, by |-> {}])
  /\ OptCallFrame
  /\ UNCHANGED <<poolVars, execVars>>

\* get_optimized_result and get_optimized_batch_results up to their first
\* recv: the lock of result_receiver is taken and kept to the end of the call
GetOptimizedStart(op, task_count, timed) ==
  /\ getCall.pc = "idle"
  /\ IF result_receiver = "None"
       THEN /\ apiRet' = OptErr(op, ShutDownMsg)
            /\ getCall' = getCall
       ELSE IF task_count = 0
       THEN /\ apiRet' = OptOk(op, <<>>)
            /\ getCall' = getCall
       ELSE /\ apiRet' = apiRet
            /\ getCall' = [op |-> op, pc |-> "blocked", timed |-> timed,
                           left |-> task_count, got |-> <<>>]
  /\ UNCHANGED <<cores, task_sender, result_receiver, workers_active,
                 task_channel, result_channel, workerPc, shutdownPc, takenBy,
                 produced>>
  /\ UNCHANGED <<poolVars, execVars>>

\* get_optimized_result(timeout_ms)
GetOptimizedResult(timed) ==
  GetOptimizedStart("get_optimized_result", 1, timed)

\* get_optimized_batch_results(task_count, timeout_ms)
GetOptimizedBatchResults(task_count, timed) ==
  GetOptimizedStart("get_optimized_batch_results", task_count, timed)

\* recv and recv_timeout come back: with the next result, or with an error
\* once the channel is empty and every Sender is gone; the call returns when
\* it has all its results, or with the error
GetRecv ==
  /\ getCall.pc = "blocked"
  /\ IF result_channel # <<>>
       THEN /\ result_channel' = Tail(result_channel)
            /\ IF getCall.left = 1
                 THEN /\ apiRet' = OptOk(getCall.op,
                                     Append(getCall.got, Head(result_channel).id))
                      /\ getCall' = NoCall
                 ELSE /\ apiRet' = apiRet
                      /\ getCall' = [getCall EXCEPT
                                    !.left = @ - 1,
                                    !.got = Append(@, Head(result_channel).id)]
       ELSE /\ ~WorkersAlive
            /\ apiRet' = OptErr(getCall.op,
                           "receiving on an empty and disconnected channel")
            /\ getCall' = NoCall
            /\ result_channel' = result_channel
  /\ UNCHANGED <<cores, task_sender, result_receiver, workers_active,
                 task_channel, workerPc, shutdownPc, takenBy, produced>>
  /\ UNCHANGED <<poolVars, execVars>>

\* the timeout of recv_timeout passes on an empty channel, or the deadline of a
\* batch is found passed before its next recv
GetTimeout ==
  /\ getCall.pc = "blocked"
  /\ getCall.timed
  /\ result_channel = <<>> \/ getCall.op = "get_optimized_batch_results"
  /\ apiRet' = OptErr(getCall.op, "timeout")
  /\ getCall' = NoCall
  /\ UNCHANGED <<cores, task_sender, result_receiver, workers_active,
                 task_channel, result_channel, workerPc, shutdownPc, takenBy,
                 produced>>
  /\ UNCHANGED <<poolVars, execVars>>

\* shutdown, first block: the flag goes down
OptShutdownFlag ==
  /\ shutdownPc = "idle"
  /\ workers_active' = FALSE
  /\ shutdownPc' = "flagged"
  /\ UNCHANGED <<cores, task_sender, result_receiver, task_channel,
                 result_channel, workerPc, getCall, apiRet, takenBy, produced>>
  /\ UNCHANGED <<poolVars, execVars>>

\* shutdown, second block: the Sender of tasks is dropped
OptShutdownSender ==
  /\ shutdownPc = "flagged"
  /\ task_sender' = "None"
  /\ shutdownPc' = "senderDropped"
  /\ UNCHANGED <<cores, result_receiver, workers_active, task_channel,
                 result_channel, workerPc, getCall, apiRet, takenBy, produced>>
  /\ UNCHANGED <<poolVars, execVars>>

\* a shutdown that leaves the Receiver of results where it is
OptShutdownReceiverKept ==
  /\ shutdownPc = "senderDropped"
  /\ getCall.pc # "blocked"
  /\ shutdownPc' = "returned"
  /\ apiRet' = OptOk("shutdown", <<>>)
  /\ UNCHANGED <<cores, task_sender, result_receiver, workers_active,
                 task_channel, result_channel, workerPc, getCall, takenBy,
                 produced>>
  /\ UNCHANGED <<poolVars, execVars>>

\* shutdown, third block, once the lock of result_receiver is free: the
\* Receiver of results is dropped, and the results still in the channel with
\* it; shutdown returns
OptShutdownReceiver ==
  /\ shutdownPc = "senderDropped"
  /\ getCall.pc # "blocked"
  /\ result_receiver' = "None"
  /\ result_channel' = <<>>
  /\ shutdownPc' = "returned"
  /\ apiRet' = OptOk("shutdown", <<>>)
  /\ UNCHANGED <<cores, task_sender, workers_active, task_channel, workerPc,
                 getCall, takenBy, produced>>
  /\ UNCHANGED <<poolVars, execVars>>

\* the thread returns from optimized_worker_thread; the last one to go takes
\* the Receiver of tasks with it, and the tasks still in the channel
WorkerExit(w) ==
  /\ workerPc' = [workerPc EXCEPT ![w] = [pc |-> "exited", n |-> 0]]
  /\ task_channel' =
       IF \A v \in Workers \ {w} : workerPc[v].pc = "exited"
         THEN <<>> ELSE task_channel

\* optimized_worker_thread 369-373: the loop condition
WorkerLoop(w) ==
  /\ workerPc[w].pc = "top"
  /\ IF workers_active
       THEN /\ workerPc' = [workerPc EXCEPT ![w].pc = "recv"]
            /\ task_channel' = task_channel
       ELSE WorkerExit(w)
  /\ UNCHANGED <<cores, task_sender, result_receiver, workers_active,
                 result_channel, getCall, shutdownPc, apiRet, takenBy, produced>>
  /\ UNCHANGED <<poolVars, execVars>>

\* a try_recv that leaves the task it returns in the channel
WorkerTryRecvPeeking(w) ==
  /\ workerPc[w].pc = "recv"
  /\ IF task_channel # <<>>
       THEN /\ workerPc' = [workerPc EXCEPT
                              ![w] = [pc |-> "exec", n |-> Head(task_channel).n]]
            /\ task_channel' = task_channel
            /\ takenBy' = [takenBy EXCEPT ![Head(task_channel).n].by = @ \cup {w}]
       ELSE /\ takenBy' = takenBy
            /\ IF task_sender = "None"
                 THEN WorkerExit(w)
                 ELSE /\ workerPc' = [workerPc EXCEPT ![w].pc = "top"]
                      /\ task_channel' = task_channel
  /\ UNCHANGED <<cores, task_sender, result_receiver, workers_active,
                 result_channel, getCall, shutdownPc, apiRet, produced>>
  /\ UNCHANGED <<poolVars, execVars>>

\* optimized_worker_thread 374-381, 447-453: try_recv under the lock of the
\* Receiver: a task, or Empty (sleep, next round), or Disconnected (leave)
WorkerTryRecv(w) ==
  /\ workerPc[w].pc = "recv"
  /\ IF task_channel # <<>>
       THEN /\ workerPc' = [workerPc EXCEPT
                              ![w] = [pc |-> "exec", n |-> Head(task_channel).n]]
            /\ task_channel' = Tail(task_channel)
            /\ takenBy' = [takenBy EXCEPT ![Head(task_channel).n].by = @ \cup {w}]
       ELSE /\ takenBy' = takenBy
            /\ IF task_sender = "None"
                 THEN WorkerExit(w)
                 ELSE /\ workerPc' = [workerPc EXCEPT ![w].pc = "top"]
                      /\ task_channel' = task_channel
  /\ UNCHANGED <<cores, task_sender, result_receiver, workers_active,
                 result_channel, getCall, shutdownPc, apiRet, produced>>
  /\ UNCHANGED <<poolVars, execVars>>

\* optimized_worker_thread 383-446: the task is executed and its result, with
\* the task's id, is sent; a send to a dropped Receiver fails and is ignored
WorkerSend(w) ==
  /\ workerPc[w].pc = "exec"
  /\ produced' = Append(produced,
       [n |-> workerPc[w].n, id |-> takenBy[workerPc[w].n].id, worker_id |-> w])
  /\ result_channel' =
       IF result_receiver = "Some"
         THEN Append(result_channel,
                [n |-> workerPc[w].n, id |-> takenBy[workerPc[w].n].id])
         ELSE result_channel
  /\ workerPc' = [workerPc EXCEPT ![w] = [pc |-> "top", n |-> 0]]
  /\ UNCHANGED <<cores, task_sender, result_receiver, workers_active,
                 task_channel, getCall, shutdownPc, apiRet, takenBy>>
  /\ UNCHANGED <<poolVars, execVars>>

OptBatchIds == UNION {[1..k -> OptIds] : k \in 0..MaxOptTasks}

OptNext ==
  \/ \E id \in OptIds, hintsOk \in BOOLEAN : SubmitOptimizedTask(id, hintsOk)
  \/ \E ids \in OptBatchIds, hintsOk \in BOOLEAN : SubmitOptimizedBatch(ids, hintsOk)
  \/ \E timed \in BOOLEAN : GetOptimizedResult(timed)
  \/ \E task_count \in 0..MaxOptTasks, timed \in BOOLEAN :
       GetOptimizedBatchResults(task_count, timed)
  \/ GetRecv
  \/ GetTimeout
  \/ OptShutdownFlag
  \/ OptShutdownSender
  \/ OptShutdownReceiver
  \/ \E w \in Workers : WorkerLoop(w)
  \/ \E w \in Workers : WorkerTryRecv(w)
  \/ \E w \in Workers : WorkerSend(w)

OptSpec == OptInit /\ [][OptNext]_vars

\* the executor with its threads scheduled fairly: a worker thread, a recv
\* that can come back and a shutdown() under way go on; when calls are made
\* and whether a timeout passes is left open. shutdown waiting for the lock of
\* result_receiver gets it if it is free again and again
OptFairSpec ==
  /\ OptInit
  /\ [][OptNext]_vars
  /\ WF_vars(GetRecv)
  /\ SF_vars(OptShutdownSender \/ OptShutdownReceiver)
  /\ \A w \in 1..MaxOptWorkers :
       WF_vars(w \in Workers /\ (WorkerLoop(w) \/ WorkerTryRecv(w) \/ WorkerSend(w)))

\* a step that is a call of one of the four functions, up to its first recv
OptApiCall ==
  \/ \E id \in OptIds, hintsOk \in BOOLEAN : SubmitOptimizedTask(id, hintsOk)
  \/ \E ids \in OptBatchIds, hintsOk \in BOOLEAN : SubmitOptimizedBatch(ids, hintsOk)
  \/ \E timed \in BOOLEAN : GetOptimizedResult(timed)
  \/ \E task_count \in 0..MaxOptTasks, timed \in BOOLEAN :
       GetOptimizedBatchResults(task_count, timed)

\* the call has put nothing on the task channel, taken nothing from the result
\* channel and is not left waiting
NothingMoved ==
  /\ task_channel' = task_channel
  /\ takenBy' = takenBy
  /\ result_channel' = result_channel
  /\ getCall' = getCall

FailedWith(r, e) == r.kind = "Err" /\ r.err = e

\* C26 as stated: after shutdown() has returned, every call of the four
\* functions fails with "Worker pool is shut down" and enqueues or consumes
\* nothing
C26_CallsFailShutDown ==
  [][(shutdownPc = "returned" /\ OptApiCall) =>
       /\ FailedWith(apiRet', ShutDownMsg)
       /\ NothingMoved]_vars

\* C26, amended: after shutdown() has returned, every call of the four
\* functions fails and enqueues or consumes nothing; the error is "Worker pool
\* is shut down", except that a submit call whose hints do not parse fails
\* with "Invalid optimization hints", the hints being parsed before the sender
\* is looked at
C26_CallsFailAfterShutdown ==
  [][(shutdownPc = "returned" /\ OptApiCall) =>
       /\ \/ FailedWith(apiRet', ShutDownMsg)
          \/ /\ apiRet'.op \in {"submit_optimized_task", "submit_optimized_batch"}
             /\ FailedWith(apiRet', "Invalid optimization hints")
       /\ NothingMoved]_vars

C26_Witness ==
  /\ shutdownPc = "returned"
  /\ apiRet = OptErr("get_optimized_batch_results", ShutDownMsg)
  /\ takenBy # <<>>

\* the results that workers have sent for the n-th task put on the channel
ResultsOf(n) == {k \in DOMAIN produced : produced[k].n = n}

\* no task is taken by two workers or answered twice, and a result carries the
\* id of the task and comes from the worker that took it
AtMostOneResult ==
  \A n \in DOMAIN takenBy :
    /\ Cardinality(takenBy[n].by) <= 1
    /\ Cardinality(ResultsOf(n)) <= 1
    /\ \A k \in ResultsOf(n) :
         /\ produced[k].id = takenBy[n].id
         /\ produced[k].worker_id \in takenBy[n].by

\* what is on the result channel has been sent by a worker, once
ChannelHoldsProduced ==
  \A i \in DOMAIN result_channel :
    /\ \E k \in DOMAIN produced :
         /\ produced[k].n = result_channel[i].n
         /\ produced[k].id = result_channel[i].id
    /\ \A j \in DOMAIN result_channel :
         result_channel[j].n = result_channel[i].n => j = i

\* C27: each task put on the task channel is taken by at most one worker
\* thread and yields at most one result on the result channel, with the id of
\* the task; and, the threads being scheduled fairly in whatever order, every
\* submitted task yields its result unless shutdown() is called first
C27_OneResultPerTask ==
  /\ [](AtMostOneResult /\ ChannelHoldsProduced)
  /\ \A n \in 1..MaxOptTasks :
       (n \in DOMAIN takenBy) ~> (ResultsOf(n) # {} \/ shutdownPc # "idle")

C27_Witness ==
  /\ shutdownPc = "idle"
  /\ Len(produced) = 2
  /\ produced[1].worker_id # produced[2].worker_id
  /\ produced[1].n = 2
  /\ Len(result_channel) = 2

ShutdownCalled == shutdownPc # "idle"

AllWorkersLeft == \A w \in Workers : workerPc[w].pc = "exited"

BlockedUntimed == getCall.pc = "blocked" /\ ~getCall.timed

GetFailed ==
  /\ getCall.pc = "idle"
  /\ apiRet.kind = "Err"
  /\ apiRet.op \in {"get_optimized_result", "get_optimized_batch_results"}

\* C28 as stated, the part about the blocked call: a call without timeout that
\* is waiting on the empty result channel when shutdown() has been called
\* eventually returns with an error
C28_BlockedGetReturnsError ==
  (BlockedUntimed /\ result_channel = <<>> /\ ShutdownCalled) ~> GetFailed

\* C28, amended: once shutdown() has been called every worker thread
\* eventually leaves its loop, a get call without timeout that is blocked
\* eventually returns, with the results that workers still delivered or with an
\* error, and shutdown() itself eventually returns
C28_ShutdownTerminates ==
  ShutdownCalled ~>
    (AllWorkersLeft /\ getCall.pc # "blocked" /\ shutdownPc = "returned")

C28_Witness ==
  /\ cores = 2
  /\ shutdownPc = "senderDropped"
  /\ AllWorkersLeft
  /\ takenBy # <<>>
  /\ getCall = NoCall
  /\ apiRet = OptErr("get_optimized_result",
                     "receiving on an empty and disconnected channel")

====
